---- MODULE Spec2Model ----
(***************************************************************************)
(* anyconfig: the XML backend's element <-> container transducers          *)
(* (anyconfig/backend/xml.py) and the path getter (anyconfig/getset.py).   *)
(*                                                                         *)
(* Python strings are sequences of one-character strings, so that strip,   *)
(* the namespace regular expression and the formatting of "prefix:local"   *)
(* are computed and not assumed.  Python values are tagged records:        *)
(*   None, Str(chars), IntV(n), Dict(ordered items <<key, value>>),         *)
(*   List(values).                                                         *)
(* An ET.Element is [tag, text, attrib, kids]: attrib an ordered item list *)
(* of <<name, chars>>, kids the sequence of child elements.                *)
(***************************************************************************)
EXTENDS Integers, Sequences, FiniteSets, TLC

VARIABLES pc, root, given, options, cnf, calls, tree, cnf2, dic, path, res, msgs, value

vars == <<pc, root, given, options, cnf, calls, tree, cnf2, dic, path, res, msgs, value>>

-----------------------------------------------------------------------------
(* Python values *)

None == [t |-> "None"]
Str(s) == [t |-> "str", s |-> s]
IntV(n) == [t |-> "int", n |-> n]
Dict(items) == [t |-> "dict", kv |-> items]
List(items) == [t |-> "list", xs |-> items]

IsStr(v) == v.t = "str"
IsDict(v) == v.t = "dict"
IsList(v) == v.t = "list"

\* Python truthiness of a value
Truthy(v) ==
    CASE v.t = "None" -> FALSE
      [] v.t = "str"  -> Len(v.s) > 0
      [] v.t = "int"  -> v.n # 0
      [] v.t = "dict" -> Len(v.kv) > 0
      [] v.t = "list" -> Len(v.xs) > 0
      [] OTHER        -> TRUE

\* ordered-dict primitives over item lists <<key, value>>
HasKey(d, k) == \E i \in 1..Len(d) : d[i][1] = k
DictGet(d, k) == d[CHOOSE i \in 1..Len(d) : d[i][1] = k][2]
DictSet(d, k, v) ==
    IF HasKey(d, k)
    THEN [i \in 1..Len(d) |-> IF d[i][1] = k THEN <<k, v>> ELSE d[i]]
    ELSE Append(d, <<k, v>>)
KeySet(d) == {d[i][1] : i \in 1..Len(d)}

RECURSIVE Flatten(_)
Flatten(seqs) == IF seqs = << >> THEN << >> ELSE Head(seqs) \o Flatten(Tail(seqs))

RECURSIVE DictFromItems(_, _)
DictFromItems(acc, items) ==
    IF items = << >> THEN acc
    ELSE DictFromItems(DictSet(acc, Head(items)[1], Head(items)[2]), Tail(items))

-----------------------------------------------------------------------------
(* str methods used by the code *)

IsSpace(c) == c \in {" ", "\t", "\n"}

RECURSIVE LStrip(_)
LStrip(s) == IF s # << >> /\ IsSpace(Head(s)) THEN LStrip(Tail(s)) ELSE s

RECURSIVE RStrip(_)
RStrip(s) ==
    IF s # << >> /\ IsSpace(s[Len(s)]) THEN RStrip(SubSeq(s, 1, Len(s) - 1)) ELSE s

\* str.strip()
Strip(s) == RStrip(LStrip(s))

Digits == <<"0", "1", "2", "3", "4", "5", "6", "7", "8", "9">>
IsDigit(c) == \E i \in 1..10 : Digits[i] = c
DigitVal(c) == (CHOOSE i \in 1..10 : Digits[i] = c) - 1

RECURSIVE IntOf(_, _)
IntOf(acc, s) == IF s = << >> THEN acc ELSE IntOf(acc * 10 + DigitVal(Head(s)), Tail(s))

RECURSIVE DigitsOf(_)
DigitsOf(n) == IF n < 10 THEN <<Digits[n + 1]>> ELSE Append(DigitsOf(n \div 10), Digits[(n % 10) + 1])

\* str(obj) for the scalars the transducers hand to it
str(v) ==
    CASE v.t = "str"  -> v
      [] v.t = "int"  -> Str(DigitsOf(v.n))
      [] v.t = "None" -> Str(<<"N", "o", "n", "e">>)
      [] OTHER        -> Str(<<"<", "o", "b", "j", ">">>)

\* anyconfig.utils.noop
noop(v) == v

\* anyconfig.parser.parse_single: a string of digits becomes an integer,
\* any other string is kept
parse_single(s) ==
    IF s # << >> /\ (\A i \in 1..Len(s) : IsDigit(s[i])) /\ (Len(s) = 1 \/ s[1] # "0")
    THEN IntV(IntOf(0, s))
    ELSE Str(s)

\* anyconfig.mdicts.is_dict_like, anyconfig.utils.is_iterable
is_dict_like(v) == IsDict(v)
is_iterable(v) == IsList(v)

-----------------------------------------------------------------------------
(* module constants of xml.py *)

NoKey == << >>      \* a keyword argument that is not passed

TAGS_attrs == <<"@", "a", "t", "t", "r", "s">>
TAGS_text == <<"@", "t", "e", "x", "t">>
TAGS_children == <<"@", "c", "h", "i", "l", "d", "r", "e", "n">>
_TAGS == [attrs |-> TAGS_attrs, text |-> TAGS_text, children |-> TAGS_children]

\* _ET_NS_RE = ^{(\S+)}(\S+)$ : the (greedy) position of the closing brace,
\* 0 when the tag does not match
NsClose(tag) ==
    LET ok(j) == /\ tag[j] = "}"
                 /\ j >= 3 /\ j <= Len(tag) - 1
                 /\ \A i \in 1..Len(tag) : ~IsSpace(tag[i])
        js == {j \in 1..Len(tag) : ok(j)}
    IN IF Len(tag) >= 4 /\ tag[1] = "{" /\ js # {}
       THEN CHOOSE j \in js : \A k \in js : k <= j
       ELSE 0

\* nspaces.get(uri, False): the prefix, or << >> (falsy) when absent
NsPrefix(nspaces, uri) == IF HasKey(nspaces, uri) THEN DictGet(nspaces, uri) ELSE << >>

_tweak_ns(tag, nspaces) ==
    IF nspaces # << >> /\ NsClose(tag) # 0
    THEN LET j == NsClose(tag)
             uri == SubSeq(tag, 2, j - 1)
             local == SubSeq(tag, j + 1, Len(tag))
             prefix == NsPrefix(nspaces, uri)
         IN IF prefix # << >> THEN prefix \o <<":">> \o local ELSE local
    ELSE tag

\* (mutant) <= for ==: no collision is ever seen
_dicts_have_unique_keys_le(dics) ==
    LET all == Flatten(dics)
    IN Cardinality(KeySet(all)) <= Len(all)

\* dics: a sequence of item lists
_dicts_have_unique_keys(dics) ==
    LET all == Flatten(dics)
    IN Cardinality(KeySet(all)) = Len(all)

_merge_dicts(dics) == DictFromItems(<< >>, Flatten(dics))

-----------------------------------------------------------------------------
(* Element -> container *)

\* ET.Element(tag): no text, no attributes, no children
Element(tag) == [tag |-> tag, text |-> None, attrib |-> << >>, kids |-> << >>]

\* the entry of dic that is the very object subdic (dic[tag] = subdic = {...});
\* elem_to_container resolves it to subdic's final content when it returns
Ref == [t |-> "ref"]
Resolve(d, subdic) ==
    [i \in 1..Len(d) |-> IF d[i][2] = Ref THEN <<d[i][1], Dict(subdic)>> ELSE d[i]]

\* a keyword parameter with its default
Kw(given_, default) == IF given_ = NoKey THEN default ELSE given_

_parse_text(val, opts) ==
    IF val # << >> /\ opts.ac_parse_value THEN parse_single(val) ELSE Str(val)

\* (mutant) lstrip for strip
_process_elem_text_lstrip(st, opts) ==
    LET text == Kw(opts.text, TAGS_text)
        elem == [st.elem EXCEPT !.text = Str(LStrip(st.elem.text.s))]
        etext == _parse_text(elem.text.s, opts)
    IN IF Truthy(elem.text)
       THEN IF Len(elem.kids) > 0 \/ elem.attrib # << >>
            THEN [st EXCEPT !.elem = elem, !.subdic = DictSet(st.subdic, text, etext)]
            ELSE [st EXCEPT !.elem = elem, !.dic = DictSet(st.dic, elem.tag, etext)]
       ELSE [st EXCEPT !.elem = elem]

\* st = [elem, dic, subdic, calls]; elem.text is rebound to its stripped value
_process_elem_text(st, opts) ==
    LET text == Kw(opts.text, TAGS_text)
        elem == [st.elem EXCEPT !.text = Str(Strip(st.elem.text.s))]
        etext == _parse_text(elem.text.s, opts)
    IN IF Truthy(elem.text)
       THEN IF Len(elem.kids) > 0 \/ elem.attrib # << >>
            THEN [st EXCEPT !.elem = elem, !.subdic = DictSet(st.subdic, text, etext)]
            ELSE [st EXCEPT !.elem = elem, !.dic = DictSet(st.dic, elem.tag, etext)]
       ELSE [st EXCEPT !.elem = elem]

_parse_attrs(elem, opts) ==
    IF opts.ac_parse_value
    THEN DictFromItems(<< >>, [i \in 1..Len(elem.attrib) |->
                                 <<elem.attrib[i][1], parse_single(elem.attrib[i][2].s)>>])
    ELSE elem.attrib

\* (mutant) merge_attrs is not looked at
_process_elem_attrs_nomerge(st, opts) ==
    [st EXCEPT !.subdic = DictSet(st.subdic, Kw(opts.attrs, TAGS_attrs),
                                  Dict(_parse_attrs(st.elem, opts)))]

_process_elem_attrs(st, opts) ==
    LET attrs == Kw(opts.attrs, TAGS_attrs)
        elem == st.elem
        adic == _parse_attrs(elem, opts)
    IN IF ~Truthy(elem.text) /\ Len(elem.kids) = 0 /\ opts.merge_attrs
       THEN [st EXCEPT !.dic = DictSet(st.dic, elem.tag, Dict(adic))]
       ELSE [st EXCEPT !.subdic = DictSet(st.subdic, attrs, Dict(adic))]

RECURSIVE elem_to_container(_, _)
RECURSIVE _process_children_elems(_, _)

\* `children` is bound by the signature, so **options, as handed on to the
\* children's elem_to_container, no longer holds it
_process_children_elems(st, opts) ==
    LET children == Kw(opts.children, TAGS_children)
        rest == [opts EXCEPT !.children = NoKey]
        elem == st.elem
        done == [i \in 1..Len(elem.kids) |-> elem_to_container(elem.kids[i], rest)]
        cdics == [i \in 1..Len(done) |-> done[i].dic]
        clist == List([i \in 1..Len(cdics) |-> Dict(cdics[i])])
        elem2 == [elem EXCEPT !.kids = [i \in 1..Len(done) |-> done[i].elem]]
        sdics == <<IF opts.merge_attrs THEN elem.attrib ELSE st.subdic>> \o cdics
        made == Flatten([i \in 1..Len(done) |->
                    [j \in 1..Len(done[i].calls) |->
                        [done[i].calls[j] EXCEPT !.pos = <<i>> \o @]]])
        st2 == [st EXCEPT !.elem = elem2, !.calls = made]
    IN IF _dicts_have_unique_keys(sdics)
       THEN [st2 EXCEPT !.dic = DictSet(st.dic, elem.tag, Dict(_merge_dicts(sdics)))]
       ELSE IF st.subdic = << >>
       THEN [st2 EXCEPT !.dic = DictSet(st.dic, elem.tag, clist)]
       ELSE [st2 EXCEPT !.subdic = DictSet(st.subdic, children, clist)]

\* returns [elem |-> the element as the call leaves it, dic |-> the result,
\*          calls |-> this call and the calls it made for the descendants, each
\*                    [pos (child indices from elem), elem, dic], in call order]
elem_to_container(elem, opts) ==
    IF elem = None THEN [elem |-> elem, dic |-> << >>, calls |-> << >>]
    ELSE
    LET st0 == [elem |-> elem, subdic |-> << >>, calls |-> << >>,
                dic |-> <<<<_tweak_ns(elem.tag, opts.nspaces), Ref>>>>]
        \* if elem.text: ...
        text_(st) == IF Truthy(st.elem.text) THEN _process_elem_text(st, opts) ELSE st
        \* if elem.attrib: ...
        attrs_(st) == IF st.elem.attrib # << >> THEN _process_elem_attrs(st, opts) ELSE st
        \* if children: ... elif not elem.text and not elem.attrib: dic[elem.tag] = None
        kids_(st) == IF Len(st.elem.kids) > 0 THEN _process_children_elems(st, opts)
                     ELSE IF ~Truthy(st.elem.text) /\ st.elem.attrib = << >>
                     THEN [st EXCEPT !.dic = DictSet(st.dic, st.elem.tag, None)]
                     ELSE st
        return(st, dic_) ==
            [elem |-> st.elem, dic |-> dic_,
             calls |-> <<[pos |-> << >>, elem |-> st.elem, dic |-> dic_]>> \o st.calls]
        resolved(st) == return(st, Resolve(st.dic, st.subdic))
    IN resolved(kids_(attrs_(text_(st0))))

\* opts.tags: [attrs, text, children], NoKey for a name the caller leaves out
_complement_tag_options(opts) ==
    IF opts.attrs = NoKey \/ opts.text = NoKey \/ opts.children = NoKey
    THEN [opts EXCEPT !.attrs = Kw(opts.tags.attrs, _TAGS.attrs),
                      !.text = Kw(opts.tags.text, _TAGS.text),
                      !.children = Kw(opts.tags.children, _TAGS.children)]
    ELSE opts

XMLNS == <<"x", "m", "l", "n", "s">>

RECURSIVE DeclareNs(_, _)
DeclareNs(attrib, nspaces) ==
    IF nspaces = << >> THEN attrib
    ELSE LET uri == Head(nspaces)[1]
             prefix == Head(nspaces)[2]
             name == IF prefix # << >> THEN XMLNS \o <<":">> \o prefix ELSE XMLNS
         IN DeclareNs(DictSet(attrib, name, Str(uri)), Tail(nspaces))

\* returns what elem_to_container returns, for root
root_to_container(root_, opts) ==
    IF root_ = None THEN [elem |-> root_, dic |-> << >>, calls |-> << >>]
    ELSE LET r1 == [root_ EXCEPT !.attrib = DeclareNs(root_.attrib, opts.nspaces)]
         IN elem_to_container(r1, _complement_tag_options(opts))

-----------------------------------------------------------------------------
(* Container -> element *)
(* Every operator returns [parent, err]: the parent element as the call    *)
(* leaves it (None when there is none) and the exception raised ("" when   *)
(* the call returns).                                                      *)

Ok(parent) == [parent |-> parent, err |-> ""]
Raise(parent, exc) == [parent |-> parent, err |-> exc]

RECURSIVE container_to_etree(_, _, _)
RECURSIVE DumpItems(_, _, _)
RECURSIVE DumpVals(_, _, _)
RECURSIVE DescendList(_, _, _)
RECURSIVE DescendChild(_, _, _)

\* for val in vals: container_to_etree(val, parent=elem, **options)
DumpVals(vals, elem, opts) ==
    IF vals = << >> THEN Ok(elem)
    ELSE LET r == container_to_etree(Head(vals), elem, opts)
         IN IF r.err # "" THEN r ELSE DumpVals(Tail(vals), r.parent, opts)

\* (mutant) the new element is not appended to its parent
_get_or_update_parent_noappend(key, val, parent, opts) ==
    LET vals == IF is_iterable(val) THEN val.xs ELSE <<val>>
        r == DumpVals(vals, Element(key), opts)
    IN IF r.err # "" THEN Raise(parent, r.err)
       ELSE IF parent = None THEN Ok(r.parent)
       ELSE Ok(parent)

_get_or_update_parent(key, val, parent, opts) ==
    LET vals == IF is_iterable(val) THEN val.xs ELSE <<val>>
        r == DumpVals(vals, Element(key), opts)
    IN IF r.err # "" THEN Raise(parent, r.err)
       ELSE IF parent = None THEN Ok(r.parent)
       ELSE Ok([parent EXCEPT !.kids = Append(@, r.parent)])

\* one child of the children list: for ckey, cval in iteritems(child), each
\* element yielded is appended to parent by the caller's loop
DescendChild(items, parent, opts) ==
    IF items = << >> THEN Ok(parent)
    ELSE LET r == container_to_etree(Head(items)[2], Element(Head(items)[1]), opts)
         IN IF r.err # "" THEN Raise(parent, r.err)
            ELSE IF parent = None THEN Raise(parent, "AttributeError")
            ELSE DescendChild(Tail(items), [parent EXCEPT !.kids = Append(@, r.parent)], opts)

DescendList(nodes, parent, opts) ==
    IF nodes = << >> THEN Ok(parent)
    ELSE IF ~IsDict(Head(nodes)) THEN Raise(parent, "AttributeError")
    ELSE LET r == DescendChild(Head(nodes).kv, parent, opts)
         IN IF r.err # "" THEN r ELSE DescendList(Tail(nodes), r.parent, opts)

\* for celem in _elem_from_descendants(val, **options): parent.append(celem)
_elem_from_descendants(val, parent, opts) ==
    CASE val.t = "list" -> DescendList(val.xs, parent, opts)
      [] val.t = "dict" -> IF val.kv = << >> THEN Ok(parent) ELSE Raise(parent, "AttributeError")
      [] val.t = "str"  -> IF val.s = << >> THEN Ok(parent) ELSE Raise(parent, "AttributeError")
      [] OTHER          -> Raise(parent, "TypeError")

RECURSIVE SetAttrs(_, _, _)
SetAttrs(items, parent, opts) ==
    IF items = << >> THEN Ok(parent)
    ELSE IF parent = None THEN Raise(parent, "AttributeError")
    ELSE LET aval == Head(items)[2]
             sval == IF opts.ac_parse_value THEN str(aval) ELSE noop(aval)
         IN SetAttrs(Tail(items),
                     [parent EXCEPT !.attrib = DictSet(@, Head(items)[1], sval)], opts)

\* the loop over the items of a dict-like obj; opts hold the three markers
DumpItems(items, parent, opts) ==
    IF items = << >> THEN Ok(parent)
    ELSE LET key == Head(items)[1]
             val == Head(items)[2]
             _str(v) == IF opts.ac_parse_value THEN str(v) ELSE noop(v)
             r == IF key = opts.attrs
                  THEN IF IsDict(val) THEN SetAttrs(val.kv, parent, opts)
                       ELSE Raise(parent, "AttributeError")
                  ELSE IF key = opts.text
                  THEN IF parent = None THEN Raise(parent, "AttributeError")
                       ELSE Ok([parent EXCEPT !.text = _str(val)])
                  ELSE IF key = opts.children
                  THEN _elem_from_descendants(val, parent, opts)
                  ELSE _get_or_update_parent(key, val, parent, opts)
         IN IF r.err # "" THEN r ELSE DumpItems(Tail(items), r.parent, opts)

container_to_etree(obj, parent, opts) ==
    LET _str(v) == IF opts.ac_parse_value THEN str(v) ELSE noop(v)
    IN IF ~is_dict_like(obj)
       THEN LET o == IF obj = None THEN None ELSE _str(obj)
            IN IF parent # None /\ Truthy(o)
               THEN Ok([parent EXCEPT !.text = o])
               ELSE Ok(parent)
       ELSE DumpItems(obj.kv, parent, _complement_tag_options(opts))

-----------------------------------------------------------------------------
(* getset.py *)

SEP_SLASH == "/"
SEP_DOT == "."
PATH_SEPS == {SEP_SLASH, SEP_DOT}

\* anyconfig.parser.parse_path: the non-empty segments between separators
RECURSIVE Split(_, _)
Split(cur, s) ==
    IF s = << >> THEN (IF cur = << >> THEN << >> ELSE <<cur>>)
    ELSE IF Head(s) \in PATH_SEPS
         THEN (IF cur = << >> THEN << >> ELSE <<cur>>) \o Split(<< >>, Tail(s))
         ELSE Split(Append(cur, Head(s)), Tail(s))

parse_path(p) == Split(<< >>, p)

\* __str_path: '.'.join(keys)
RECURSIVE __str_path(_)
__str_path(keys) ==
    IF keys = << >> THEN << >>
    ELSE IF Len(keys) = 1 THEN keys[1]
    ELSE keys[1] \o <<".">> \o __str_path(Tail(keys))

\* `key in dic` for a str: substring test
IsSubstr(k, s) == \E i \in 0..(Len(s) - Len(k)) : SubSeq(s, i + 1, i + Len(k)) = k

\* the outcome of a getter: [res, msg]; msg is [kind |-> ""] on success and
\* names the kind of failure and where otherwise
Got(v) == [res |-> v, msg |-> [kind |-> ""]]
Failed(kind, at) == [res |-> None, msg |-> [kind |-> kind, at |-> at]]

RECURSIVE _get_recur(_, _, _)
_get_recur(d, path_keys, traversed) ==
    IF path_keys = << >> THEN Got(d)
    ELSE LET key == Head(path_keys)
             here == __str_path(Append(traversed, key))
         IN CASE d.t = "dict" ->
                   IF HasKey(d.kv, key)
                   THEN _get_recur(DictGet(d.kv, key), Tail(path_keys), Append(traversed, key))
                   ELSE Failed("Not found at", here)
              [] d.t = "str" ->
                   IF IsSubstr(key, d.s) THEN Failed("Not a dict at", here)
                   ELSE Failed("Not found at", here)
              [] d.t = "list" ->
                   IF \E i \in 1..Len(d.xs) : d.xs[i] = Str(key)
                   THEN Failed("Not a dict at", here)
                   ELSE Failed("Not found at", here)
              [] OTHER -> Failed("Not a dict at", here)

\* functools.reduce(operator.getitem, path_keys, dic), KeyError and
\* TypeError caught
RECURSIVE _get_reduce(_, _)

\* (mutant) a missing key yields the mapping reached (a lookup with a
\* default) instead of KeyError
_get_reduce_default(d, path_keys) ==
    IF path_keys = << >> THEN Got(d)
    ELSE LET key == Head(path_keys)
         IN IF d.t = "dict"
            THEN IF HasKey(d.kv, key)
                 THEN _get_reduce(DictGet(d.kv, key), Tail(path_keys))
                 ELSE Got(d)
            ELSE Failed("TypeError", key)

_get_reduce(d, path_keys) ==
    IF path_keys = << >> THEN Got(d)
    ELSE LET key == Head(path_keys)
         IN IF d.t = "dict"
            THEN IF HasKey(d.kv, key)
                 THEN _get_reduce(DictGet(d.kv, key), Tail(path_keys))
                 ELSE Failed("KeyError", key)
            ELSE Failed("TypeError", key)

\* get(dic, path) with the default getter: the message is dropped
get(d, p) == _get_reduce(d, parse_path(p)).res

\* the loop of _mk_nested_dic over the reversed keys: ret is None before the
\* first turn
RECURSIVE MkNestedLoop(_, _, _)
MkNestedLoop(keys, ret, v) ==
    IF keys = << >> THEN ret
    ELSE MkNestedLoop(Tail(keys),
                      Dict(<<<<Head(keys), IF ret = None THEN v ELSE ret>>>>), v)

Reversed(keys) == [i \in 1..Len(keys) |-> keys[Len(keys) + 1 - i]]

_mk_nested_dic(p, v) == MkNestedLoop(Reversed(parse_path(p)), None, v)

-----------------------------------------------------------------------------
(* Inputs *)

MaxKids == 2        \* leaf children per element
MaxPath == 3        \* segments per path expression

SeqsUpTo(S, n) == UNION {[1..k -> S] : k \in 0..n}

A == <<"a">>
B == <<"b">>
C == <<"c">>
X == <<"x">>
U == <<"u">>
P == <<"p">>
QA == <<"{", "u", "}", "a">>
QB == <<"{", "u", "}", "b">>

NoAttrs == << >>
AttrX == <<<<X, Str(<<"1">>)>>>>
AttrB == <<<<B, Str(<<"2">>)>>>>

Elems(tags, kinds, kidseqs) ==
    {[tag |-> tg, text |-> k[1], attrib |-> k[2], kids |-> ks] :
        tg \in tags, k \in kinds, ks \in kidseqs}

LeafKinds == {<<None, NoAttrs>>, <<Str(<<"t">>), NoAttrs>>, <<None, AttrX>>}
Leaves == Elems({B, C}, LeafKinds, {<< >>}) \cup Elems({QB}, {<<Str(<<"t">>), NoAttrs>>}, {<< >>})

GrandKids == Elems({B}, {<<None, NoAttrs>>, <<Str(<<"t">>), NoAttrs>>}, {<< >>})
                \cup Elems({C}, {<<None, NoAttrs>>}, {<< >>})
MidKinds == {<<None, NoAttrs>>, <<Str(<<"t">>), NoAttrs>>, <<None, AttrX>>}
Mids == Elems({C}, MidKinds, SeqsUpTo(GrandKids, MaxKids) \ {<< >>})

RootKinds == {<<None, NoAttrs>>, <<Str(<<" ">>), NoAttrs>>, <<Str(<<" ", "7", " ">>), NoAttrs>>,
              <<None, AttrX>>, <<None, AttrB>>, <<Str(<<"t">>), AttrX>>}
Roots == Elems({A}, RootKinds, SeqsUpTo(Leaves, MaxKids) \cup {<<m>> : m \in Mids})
            \cup Elems({QA}, {<<None, NoAttrs>>, <<Str(<<"t">>), NoAttrs>>},
                       SeqsUpTo(Leaves, 1))

NoTags == [attrs |-> NoKey, text |-> NoKey, children |-> NoKey]
MyTags == [attrs |-> <<"#", "a">>, text |-> <<"#", "t">>, children |-> <<"#", "c">>]

Options ==
    {[nspaces |-> ns, merge_attrs |-> m, ac_parse_value |-> pv, tags |-> tg,
      attrs |-> NoKey, text |-> NoKey, children |-> NoKey] :
        ns \in {<< >>, <<<<U, P>>>>, <<<<U, << >>>>>>},
        m \in BOOLEAN, pv \in BOOLEAN, tg \in {NoTags, MyTags}}

NoOptions == [nspaces |-> << >>, merge_attrs |-> FALSE, ac_parse_value |-> FALSE,
              tags |-> NoTags, attrs |-> NoKey, text |-> NoKey, children |-> NoKey]

\* containers and path expressions for get
GetLeaves == {None, IntV(0), IntV(1), Str(<<"a", " ", "s", "t", "r">>), List(<<Str(B)>>)}
GetInner == GetLeaves \cup {Dict(<<<<C, IntV(0)>>, <<X, IntV(1)>>>>), Dict(<< >>)}
GetMid == GetInner \cup {Dict(<<<<B, v>>>>) : v \in GetInner}
GetDics == GetMid \cup {Dict(<<<<A, v>>>>) : v \in GetMid}
GetPaths == {p \in SeqsUpTo({A, B, C}, MaxPath) : TRUE}
GetExprs ==
    {__str_path(p) : p \in GetPaths}
        \cup {<<"/">> \o A, <<"/">> \o A \o <<"/">> \o B \o <<"/">> \o C, <<"/">>,
              A \o <<".", ".">> \o B \o <<".">>}

\* values for _mk_nested_dic
MkVals == {None, IntV(0), IntV(1), Str(<<"t">>), List(<<Str(B)>>), Dict(<< >>),
           Dict(<<<<C, IntV(0)>>>>)}

\* containers handed to container_to_etree as they are: bodies that are not
\* mappings, values under the children marker, and top levels that are not
\* mappings
Bodies == {None, IntV(0), IntV(7), Str(<< >>), Str(<<"t">>), Str(<<"0">>),
           List(<<IntV(7), Str(<<"t">>)>>), List(<<IntV(0)>>)}
UnderChildren == {List(<< >>), List(<<Dict(<<<<B, None>>>>)>>),
                  List(<<Dict(<<<<B, Str(<<"t">>)>>>>), Dict(<<<<B, None>>, <<C, None>>>>)>>),
                  List(<<Str(<<"t">>)>>), List(<<IntV(1)>>), List(<<None>>),
                  Dict(<< >>), Dict(<<<<B, None>>>>), Str(<< >>), Str(<<"t">>),
                  IntV(7), None}
DumpCnfs ==
    Bodies
        \cup {Dict(<<<<A, v>>>>) : v \in Bodies}
        \cup {Dict(<<<<A, Dict(<<<<k, w>>>>)>>>>) :
                 k \in {TAGS_children, MyTags.children}, w \in UnderChildren}
        \cup {Dict(<<<<A, Dict(<<<<X, IntV(1)>>, <<k, w>>>>)>>>>) :
                 k \in {TAGS_children, MyTags.children}, w \in UnderChildren}
DumpOptions == {o \in Options : o.nspaces = << >> /\ ~o.merge_attrs}

NoTree == [parent |-> None, err |-> ""]

-----------------------------------------------------------------------------
(* The state machine: one load / dump / load round trip of an element      *)
(* tree, or one get on a container.                                        *)
(*   root    the element tree handed to root_to_container (an object the   *)
(*           call may change); given is the tree as it was handed over     *)
(*   cnf     the container root_to_container returned; calls: the          *)
(*           elem_to_container calls that load made, with their results    *)
(*   tree    what container_to_etree(cnf) built; cnf2: its reload          *)
(*   dic, path, res   the arguments and the result of get                  *)

InitXml ==
    /\ pc = "xml"
    /\ root \in Roots
    /\ given = root
    /\ options \in Options
    /\ cnf = None /\ calls = << >> /\ tree = NoTree /\ cnf2 = None
    /\ dic = None /\ path = << >> /\ res = None
    /\ msgs = None /\ value = None

InitGet ==
    /\ pc = "get"
    /\ root = None /\ given = None /\ options = NoOptions
    /\ cnf = None /\ calls = << >> /\ tree = NoTree /\ cnf2 = None
    /\ dic \in GetDics
    /\ path \in GetExprs
    /\ res = None
    /\ msgs = None /\ value = None

\* before _mk_nested_dic(path, value)
InitMk ==
    /\ pc = "mk"
    /\ root = None /\ given = None /\ options = NoOptions
    /\ cnf = None /\ calls = << >> /\ tree = NoTree /\ cnf2 = None
    /\ dic = None
    /\ path \in GetExprs
    /\ value \in MkVals
    /\ res = None /\ msgs = None

\* before container_to_etree(cnf, **options) on a container that was not
\* loaded
InitDump ==
    /\ pc = "cnf"
    /\ root = None /\ given = None
    /\ options \in DumpOptions
    /\ cnf \in DumpCnfs
    /\ calls = << >> /\ tree = NoTree /\ cnf2 = None
    /\ dic = None /\ path = << >> /\ res = None
    /\ msgs = None /\ value = None

Init == InitXml \/ InitGet \/ InitMk \/ InitDump

\* cnf = root_to_container(root, nspaces=..., **options)
Load ==
    /\ pc = "xml"
    /\ LET r == root_to_container(root, options)
       IN /\ root' = r.elem
          /\ cnf' = Dict(r.dic)
          /\ calls' = r.calls
    /\ pc' = "loaded"
    /\ UNCHANGED <<given, options, tree, cnf2, dic, path, res, msgs, value>>

\* tree = container_to_etree(cnf, **options)
Dump ==
    /\ pc = "loaded"
    /\ tree' = container_to_etree(cnf, None, options)
    /\ pc' = "dumped"
    /\ UNCHANGED <<root, given, options, cnf, calls, cnf2, dic, path, res, msgs, value>>

\* cnf2 = root_to_container(tree.getroot(), nspaces=..., **options)
Reload ==
    /\ pc = "dumped"
    /\ tree.err = ""
    /\ LET r == root_to_container(tree.parent, options)
       IN /\ tree' = [tree EXCEPT !.parent = r.elem]
          /\ cnf2' = Dict(r.dic)
    /\ pc' = "reloaded"
    /\ UNCHANGED <<root, given, options, cnf, calls, dic, path, res, msgs, value>>

\* res = get(dic, path)
Get ==
    /\ pc = "get"
    /\ res' = get(dic, path)
    /\ pc' = "got"
    /\ UNCHANGED <<root, given, options, cnf, calls, tree, cnf2, dic, path, msgs, value>>

\* both getters on the same container and keys:
\* _get_recur(dic, keys) and _get_reduce(dic, keys)
Getters ==
    /\ pc = "get"
    /\ msgs' = [recur |-> _get_recur(dic, parse_path(path), << >>),
                reduce |-> _get_reduce(dic, parse_path(path))]
    /\ pc' = "getters"
    /\ UNCHANGED <<root, given, options, cnf, calls, tree, cnf2, dic, path, res, value>>

\* dic = _mk_nested_dic(path, value)
MkNested ==
    /\ pc = "mk"
    /\ dic' = _mk_nested_dic(path, value)
    /\ pc' = "made"
    /\ UNCHANGED <<root, given, options, cnf, calls, tree, cnf2, path, res, msgs, value>>

\* res = get(dic, path) on the mapping _mk_nested_dic made
GetNested ==
    /\ pc = "made"
    /\ res' = get(dic, path)
    /\ pc' = "fetched"
    /\ UNCHANGED <<root, given, options, cnf, calls, tree, cnf2, dic, path, msgs, value>>

\* tree = container_to_etree(cnf, **options) on a container that was not
\* loaded
DumpGiven ==
    /\ pc = "cnf"
    /\ tree' = container_to_etree(cnf, None, options)
    /\ pc' = "built"
    /\ UNCHANGED <<root, given, options, cnf, calls, cnf2, dic, path, res, msgs, value>>

Next == Load \/ Dump \/ Reload \/ Get \/ Getters \/ MkNested \/ GetNested \/ DumpGiven

Spec == Init /\ [][Next]_vars

-----------------------------------------------------------------------------
(* What the claims speak of *)

\* the marker names the caller asked for
attrsKey == Kw(options.tags.attrs, TAGS_attrs)
textKey == Kw(options.tags.text, TAGS_text)
childrenKey == Kw(options.tags.children, TAGS_children)

Loaded == calls # << >>
CallAt(pos) == calls[CHOOSE i \in 1..Len(calls) : calls[i].pos = pos]

\* the value elem_to_container stored for the element of call c: the entry
\* under elem.tag when the call wrote one, else the entry it began with
TagValue(c) ==
    IF HasKey(c.dic, c.elem.tag) THEN DictGet(c.dic, c.elem.tag) ELSE c.dic[1][2]

TrimmedText(e) == IF e.text = None THEN << >> ELSE Strip(e.text.s)
HasText(e) == TrimmedText(e) # << >>
HasAttrs(e) == e.attrib # << >>
HasKids(e) == Len(e.kids) > 0

\* a string as the container holds it
Parsed(s) == IF options.ac_parse_value THEN parse_single(s) ELSE Str(s)
ParsedAttrs(e) == [i \in 1..Len(e.attrib) |-> <<e.attrib[i][1], Parsed(e.attrib[i][2].s)>>]

\* the per-child mappings of call c, in document order
KidDics(c) == [i \in 1..Len(c.elem.kids) |-> CallAt(c.pos \o <<i>>).dic]
KidList(c) == List([i \in 1..Len(c.elem.kids) |-> Dict(KidDics(c)[i])])
KidEntries(c) == Flatten(KidDics(c))

\* the mappings a flat merge would join, and whether their keys collide
MergeSet(c) == (IF options.merge_attrs THEN <<c.elem.attrib>> ELSE << >>) \o KidDics(c)
Collide(dics) ==
    LET all == Flatten(dics)
    IN \E i, j \in 1..Len(all) : i # j /\ all[i][1] = all[j][1]

IsKidKey(c, k) == \E i \in 1..Len(KidEntries(c)) : KidEntries(c)[i][1] = k
KidPart(c, items) ==
    LET pick(it) == IsKidKey(c, it[1]) IN SelectSeq(items, pick)

\* the children of call c sit in the collision shape under marker key k
UnderMarker(c, k) ==
    /\ IsDict(TagValue(c))
    /\ HasKey(TagValue(c).kv, k)
    /\ DictGet(TagValue(c).kv, k) = KidList(c)

RECURSIVE DistinctKidTags(_)
DistinctKidTags(e) ==
    /\ \A i, j \in 1..Len(e.kids) : i # j => e.kids[i].tag # e.kids[j].tag
    /\ \A i \in 1..Len(e.kids) : DistinctKidTags(e.kids[i])

\* a string after load and dump: through the value parser and str when
\* ac_parse_value is set
ThroughParser(s) == IF options.ac_parse_value THEN str(parse_single(s)).s ELSE s

TextOf(e) == IF e.text = None THEN << >> ELSE e.text.s
AttrSet(e) == {<<e.attrib[i][1], e.attrib[i][2].s>> : i \in 1..Len(e.attrib)}

\* element t carries what element g carried: tag, attributes, trimmed text,
\* and the same children up to their order
RECURSIVE SameElem(_, _)
SameElem(g, t) ==
    /\ t.tag = g.tag
    /\ AttrSet(t) = {<<a[1], ThroughParser(a[2])>> : a \in AttrSet(g)}
    /\ TextOf(t) = ThroughParser(TrimmedText(g))
    /\ Len(t.kids) = Len(g.kids)
    /\ \A i \in 1..Len(g.kids) : \E j \in 1..Len(t.kids) : SameElem(g.kids[i], t.kids[j])

Dumped == pc = "dumped" /\ tree.err = "" /\ tree.parent # None

-----------------------------------------------------------------------------
(* Claims *)

\* C1: a second round trip is a no-op: for a tree loaded without a
\* namespace map, the container loaded from the tree dumped from cnf, with
\* the same options, equals cnf.
C1_Idempotent == (pc = "reloaded" /\ options.nspaces = << >>) => cnf2 = cnf

\* C2 (as stated): for an element tree whose children have pairwise distinct
\* tags at each element, loaded without a namespace map, the dumped tree
\* has the same tag, attribute set and (trimmed) text at every node,
\* whatever the options.
C2_Original ==
    (Dumped /\ DistinctKidTags(given) /\ options.nspaces = << >>)
        => SameElem(given, tree.parent)

\* C2 (amended): the same, when merge_attrs is unset.
C2_RoundTrip ==
    (Dumped /\ DistinctKidTags(given) /\ ~options.merge_attrs /\ options.nspaces = << >>)
        => SameElem(given, tree.parent)

C2_Witness ==
    /\ Dumped /\ DistinctKidTags(given) /\ ~options.merge_attrs /\ options.nspaces = << >>
    /\ options.ac_parse_value
    /\ HasText(given) /\ given.text.s # TrimmedText(given)
    /\ Len(given.kids) = 2 /\ HasAttrs(given.kids[1]) /\ HasText(given.kids[2])
    /\ SameElem(given, tree.parent)

\* C3: an element with children: when the keys of the per-child mappings
\* (and of the element's attributes, under merge_attrs) are pairwise
\* distinct, the tag maps to one mapping that holds every child entry in
\* document order; when two keys are equal, no child entry is merged: the
\* whole list of per-child mappings is the tag's value or sits under one key
\* of it.
C3_UniqueKeyMerge ==
    \A n \in 1..Len(calls) :
        LET c == calls[n]
            v == TagValue(c)
        IN HasKids(c.elem) =>
            IF ~Collide(MergeSet(c))
            THEN IsDict(v) /\ KidPart(c, v.kv) = KidEntries(c)
            ELSE \/ v = KidList(c)
                 \/ /\ IsDict(v)
                    /\ KidPart(c, v.kv) = << >>
                    /\ \E i \in 1..Len(v.kv) : v.kv[i][2] = KidList(c)

\* children with distinct tags, one of which is the name of an attribute
\* of the element, under merge_attrs: nothing is merged
C3_Witness ==
    /\ pc = "loaded" /\ options.merge_attrs /\ options.nspaces = << >>
    /\ Len(given.kids) = 2 /\ DistinctKidTags(given) /\ HasAttrs(given)
    /\ Collide(MergeSet(calls[1]))
    /\ UnderMarker(calls[1], childrenKey)
    /\ KidPart(calls[1], TagValue(calls[1]).kv) = << >>

\* C4: an element whose children's keys collide: with no text and no
\* attributes the tag maps to the list of per-child mappings; with text or
\* attributes the tag maps to a mapping that holds that list under the
\* caller's childrenKey beside the text and attributes entries.
C4_Collision ==
    \A n \in 1..Len(calls) :
        LET c == calls[n]
            v == TagValue(c)
        IN (HasKids(c.elem) /\ Collide(MergeSet(c))) =>
            IF ~HasText(c.elem) /\ ~HasAttrs(c.elem)
            THEN v = KidList(c)
            ELSE /\ UnderMarker(c, childrenKey)
                 /\ HasText(c.elem) =>
                        /\ HasKey(v.kv, textKey)
                        /\ DictGet(v.kv, textKey) = Parsed(TrimmedText(c.elem))
                 /\ HasAttrs(c.elem) =>
                        /\ HasKey(v.kv, attrsKey)
                        /\ DictGet(v.kv, attrsKey) = Dict(ParsedAttrs(c.elem))

\* C5: an element with non-empty trimmed text: with no attributes and no
\* children the tag maps to the (parsed) text; otherwise the tag's value is a
\* mapping that holds the text under textKey.
C5_TextRule ==
    \A n \in 1..Len(calls) :
        LET c == calls[n]
            v == TagValue(c)
            etext == Parsed(TrimmedText(c.elem))
        IN HasText(c.elem) =>
            IF ~HasAttrs(c.elem) /\ ~HasKids(c.elem)
            THEN v = etext
            ELSE IsDict(v) /\ HasKey(v.kv, textKey) /\ DictGet(v.kv, textKey) = etext

\* the tag's value holds the attributes as a sub-mapping under attrsKey
AttrsKept(c) ==
    /\ IsDict(TagValue(c))
    /\ HasKey(TagValue(c).kv, attrsKey)
    /\ DictGet(TagValue(c).kv, attrsKey) = Dict(ParsedAttrs(c.elem))

\* the attributes are entries of the tag's own mapping, ahead of the children
AttrsMixed(c) ==
    LET v == TagValue(c)
        na == Len(c.elem.attrib)
    IN /\ IsDict(v)
       /\ ~HasKey(v.kv, attrsKey)
       /\ Len(v.kv) >= na
       /\ \A i \in 1..na : v.kv[i][1] = c.elem.attrib[i][1]

\* C6 (as stated): an element with attributes: under merge_attrs, with no
\* text and no children, the tag maps to the attributes mapping; in every
\* other case the tag's value holds them under attrsKey.
C6_Original ==
    \A n \in 1..Len(calls) :
        LET c == calls[n]
        IN HasAttrs(c.elem) =>
            IF options.merge_attrs /\ ~HasText(c.elem) /\ ~HasKids(c.elem)
            THEN TagValue(c) = Dict(ParsedAttrs(c.elem))
            ELSE AttrsKept(c)

\* C6 (amended): ... in every other case the tag's value holds them under
\* attrsKey, except under merge_attrs with children whose keys and the
\* attribute names are pairwise distinct: then the attributes are entries
\* of the tag's mapping, mixed with the children.
C6_AttrRule ==
    \A n \in 1..Len(calls) :
        LET c == calls[n]
        IN HasAttrs(c.elem) =>
            IF options.merge_attrs /\ ~HasText(c.elem) /\ ~HasKids(c.elem)
            THEN TagValue(c) = Dict(ParsedAttrs(c.elem))
            ELSE IF options.merge_attrs /\ HasKids(c.elem) /\ ~Collide(MergeSet(c))
            THEN AttrsMixed(c)
            ELSE AttrsKept(c)

C6_Witness ==
    /\ pc = "loaded" /\ options.merge_attrs /\ options.nspaces = << >>
    /\ \E n \in 1..Len(calls) :
          /\ HasAttrs(calls[n].elem) /\ HasKids(calls[n].elem)
          /\ ~Collide(MergeSet(calls[n]))
          /\ AttrsMixed(calls[n])
    /\ \E n \in 1..Len(calls) :
          /\ HasAttrs(calls[n].elem) /\ ~HasKids(calls[n].elem) /\ ~HasText(calls[n].elem)
          /\ TagValue(calls[n]) = Dict(ParsedAttrs(calls[n].elem))

\* the tag as namespace rewriting should leave it: prefix:local for a
\* qualified tag whose URI has a non-empty prefix in the map
Rewritten(tag) ==
    LET j == NsClose(tag)
        prefix == NsPrefix(options.nspaces, SubSeq(tag, 2, j - 1))
    IN IF j # 0 /\ prefix # << >>
       THEN prefix \o <<":">> \o SubSeq(tag, j + 1, Len(tag))
       ELSE tag

\* C7: every call of elem_to_container, at every depth, returns a mapping
\* with exactly one entry, keyed by prefix:local when the tag's URI has a
\* non-empty prefix in the namespace map.
C7_OneEntry ==
    \A n \in 1..Len(calls) :
        /\ Len(calls[n].dic) = 1
        /\ Rewritten(calls[n].elem.tag) # calls[n].elem.tag
              => calls[n].dic[1][1] = Rewritten(calls[n].elem.tag)

\* C8: at every depth, children that must go under the children marker
\* (colliding keys, and text or attributes) go under the caller's
\* childrenKey, never under the default "@children" when the caller named
\* another.
C8_TagsEveryDepth ==
    \A n \in 1..Len(calls) :
        LET c == calls[n]
        IN (HasKids(c.elem) /\ Collide(MergeSet(c)) /\ (HasText(c.elem) \/ HasAttrs(c.elem)))
            => /\ UnderMarker(c, childrenKey)
               /\ childrenKey # TAGS_children => ~HasKey(TagValue(c).kv, TAGS_children)

RECURSIVE TrimAll(_)
TrimAll(e) ==
    [e EXCEPT !.text = IF e.text = None THEN None ELSE Str(Strip(e.text.s)),
              !.kids = [i \in 1..Len(e.kids) |-> TrimAll(e.kids[i])]]

NsDecls ==
    [i \in 1..Len(options.nspaces) |->
        <<IF options.nspaces[i][2] # << >> THEN XMLNS \o <<":">> \o options.nspaces[i][2]
          ELSE XMLNS,
          Str(options.nspaces[i][1])>>]

\* C9 (as stated): root_to_container leaves every element of its input as
\* it was.
C9_Original == Loaded => root = given

\* C9 (amended): root_to_container leaves every element's tag and children
\* as they were; it replaces each element's text by the text stripped of
\* surrounding whitespace, and it adds to the root's attributes one
\* xmlns / xmlns:prefix attribute per entry of the namespace map; the
\* attributes of every other element are as they were.
C9_InputAfterLoad ==
    Loaded => root = [TrimAll(given) EXCEPT !.attrib = given.attrib \o NsDecls]

C9_Witness ==
    /\ pc = "loaded"
    /\ root # given
    /\ given.text # None /\ given.text.s # Strip(given.text.s) /\ HasText(given)
    /\ HasKids(given)

\* what an ordered left-to-right descent finds: << "value", v >>, or
\* << "absent", segment >>, or << "not a mapping", segment >>
RECURSIVE Descend(_, _)
Descend(d, keys) ==
    IF keys = << >> THEN <<"value", d>>
    ELSE IF ~IsDict(d) THEN <<"not a mapping", Head(keys)>>
    ELSE IF \A i \in 1..Len(d.kv) : d.kv[i][1] # Head(keys) THEN <<"absent", Head(keys)>>
    ELSE Descend(d.kv[CHOOSE i \in 1..Len(d.kv) : d.kv[i][1] = Head(keys)][2], Tail(keys))

Segments == parse_path(path)

\* C10 (as stated): get returns the value at the path, yields KeyNotFound
\* for an absent segment and NotATraversableValue when the value reached is
\* not a mapping.
C10_Original ==
    pc = "got" =>
        LET found == Descend(dic, Segments)
        IN CASE found[1] = "value" -> res = found[2]
             [] found[1] = "absent" -> res = [t |-> "KeyNotFound", at |-> found[2]]
             [] OTHER -> res = [t |-> "NotATraversableValue", at |-> found[2]]

\* C10 (amended): get returns the value at the path when every segment is a
\* key of the mapping reached so far; when a segment is absent, and when the
\* value reached is not a mapping, it returns None (the getter's message,
\* which alone tells the two apart, is dropped); it never raises.
C10_Get ==
    pc = "got" =>
        LET found == Descend(dic, Segments)
        IN IF found[1] = "value" THEN res = found[2] ELSE res = None

C10_Witness ==
    /\ pc = "got"
    /\ Len(Segments) = 3
    /\ Descend(dic, SubSeq(Segments, 1, 2))[1] = "value"
    /\ Descend(dic, Segments)[1] = "not a mapping"
    /\ res = None

\* the class of a getter's outcome: "" on success, else key not found or
\* not a traversable value
ErrClass(o) ==
    CASE o.msg.kind = "" -> ""
      [] o.msg.kind \in {"Not found at", "KeyError"} -> "KeyNotFound"
      [] OTHER -> "NotATraversableValue"

\* C11: _get_recur and _get_reduce agree on every container and key path:
\* the same value and, on failure, the same class of error.
C11_GettersAgree ==
    pc = "getters" =>
        /\ msgs.recur.res = msgs.reduce.res
        /\ ErrClass(msgs.recur) = ErrClass(msgs.reduce)

\* C12: for every path expression and value, get finds the value at the path
\* in the mapping _mk_nested_dic made for them.
C12_GetOfNested == pc = "fetched" => res = value

\* w is a sequence of mappings
SeqOfMappings(w) == IsList(w) /\ \A i \in 1..Len(w.xs) : IsDict(w.xs[i])

\* somewhere in container v, a value under childrenKey is not a sequence of
\* mappings
RECURSIVE BadChildren(_)
BadChildren(v) ==
    CASE v.t = "dict" ->
            \E i \in 1..Len(v.kv) :
                IF v.kv[i][1] = childrenKey
                THEN ~SeqOfMappings(v.kv[i][2])
                        \/ \E j \in 1..Len(v.kv[i][2].xs) : BadChildren(v.kv[i][2].xs[j])
                ELSE BadChildren(v.kv[i][2])
      [] v.t = "list" -> \E j \in 1..Len(v.xs) : BadChildren(v.xs[j])
      [] OTHER -> FALSE

\* C13: container_to_etree fails, and returns no element tree, when the top
\* level is not a mapping or a value under childrenKey is not a sequence of
\* mappings.
C13_InvalidShape ==
    (pc = "built" /\ (~IsDict(cnf) \/ BadChildren(cnf))) => tree.err # ""

IsScalar(v) == v.t \in {"None", "int", "str"}

\* C14: a body that is not a mapping: a null or false-like value leaves the
\* element without text, any other value is set as the element's text,
\* converted to a string, whatever ac_parse_value is.
C14_DumpBase ==
    (pc = "built" /\ IsDict(cnf) /\ Len(cnf.kv) = 1 /\ IsScalar(cnf.kv[1][2])) =>
        /\ tree.err = ""
        /\ tree.parent = [Element(cnf.kv[1][1]) EXCEPT
                            !.text = IF Truthy(cnf.kv[1][2]) THEN str(cnf.kv[1][2]) ELSE None]

\* the entries among which call c placed the attributes of its element
AttrHolder(c) ==
    LET v == TagValue(c)
    IN IF ~IsDict(v) THEN << >>
       ELSE IF HasKey(v.kv, attrsKey) THEN DictGet(v.kv, attrsKey).kv
       ELSE v.kv

\* C15: under ac_parse_value, every attribute value in the container is the
\* value parser's output for the attribute's string, wherever the attribute
\* was placed, and so is every text.
C15_ParsedEverywhere ==
    \A n \in 1..Len(calls) :
        LET c == calls[n]
            v == TagValue(c)
            e == c.elem
        IN options.ac_parse_value =>
            /\ \A i \in 1..Len(e.attrib) :
                  HasKey(AttrHolder(c), e.attrib[i][1]) =>
                      DictGet(AttrHolder(c), e.attrib[i][1]) = parse_single(e.attrib[i][2].s)
            /\ (HasText(e) /\ ~IsDict(v)) => v = parse_single(TrimmedText(e))
            /\ (HasText(e) /\ IsDict(v) /\ HasKey(v.kv, textKey)) =>
                  DictGet(v.kv, textKey) = parse_single(TrimmedText(e))

====
